---- MODULE Spec2Model ----
(***************************************************************************)
(* Model of the MIPS pipeline simulation engine of                         *)
(* src/app/src/context/SimulationContext.tsx: the instruction decoder      *)
(* (parseInstruction), the hazard analyzer (detectHazards), the per-tick   *)
(* transition function (calculateNextState) and the lifecycle operations   *)
(* of SimulationProvider.                                                  *)
(*                                                                         *)
(* An instruction is the string of 8 hexadecimal characters the input      *)
(* component accepts; it is modelled as the sequence of its 8 digit        *)
(* values.  Records indexed by instruction number (Record<number, X>) are  *)
(* functions over 0..n-1, as in the source.                                *)
(***************************************************************************)
EXTENDS Integers, Sequences, FiniteSets, TLC

\* ------------------------------------------------------------------------
\* Bounds of the model
\* ------------------------------------------------------------------------

\* longest instruction list that is submitted
MaxInstr == 3

\* ------------------------------------------------------------------------
\* Program constants
\* ------------------------------------------------------------------------

STAGE_NAMES == <<"IF", "ID", "EX", "MEM", "WB">>

DEFAULT_STAGE_COUNT == Len(STAGE_NAMES)

\* "null" in instructionStages: the instruction is not in the pipeline
NULL == -1

\* The instruction words the model submits (hex digits, most significant first)
AddR7 == <<0, 0, 10, 6, 3, 8, 2, 0>>     \* 00A63820  add $7,$5,$6
AddR8 == <<0, 0, 14, 7, 4, 0, 2, 0>>     \* 00E74020  add $8,$7,$7
AddR7b == <<0, 1, 0, 5, 3, 8, 2, 0>>     \* 01053820  add $7,$8,$5
JalW == <<0, 12, 14, 0, 0, 0, 0, 0>>     \* 0CE00000  jal (target bits 25:21 = 7)
JrRa == <<0, 3, 14, 0, 0, 0, 0, 8>>      \* 03E00008  jr $31
LwR7 == <<8, 12, 10, 7, 0, 0, 0, 0>>     \* 8CA70000  lw $7,0($5)

Words == {AddR7, AddR8, AddR7b, JalW, JrRa, LwR7}

RECURSIVE SeqsUpTo(_)
SeqsUpTo(n) ==
  IF n = 0 THEN {<<>>}
  ELSE LET shorter == SeqsUpTo(n - 1)
       IN shorter \cup {Append(s, w) : s \in {t \in shorter : Len(t) = n - 1}, w \in Words}

\* Two more words for the runs that are only analyzed, not ticked
JW == <<0, 8, 14, 0, 0, 0, 0, 0>>        \* 08E00000  j (target bits 25:21 = 7)
AddRa == <<0, 0, 10, 6, 15, 8, 2, 0>>    \* 00A6F820  add $31,$5,$6

AllWords == Words \cup {JW, AddRa}

\* the lists of at most n words of a pool
RECURSIVE SeqsOver(_, _)
SeqsOver(words, n) ==
  IF n = 0 THEN {<<>>}
  ELSE LET shorter == SeqsOver(words, n - 1)
       IN shorter \cup {Append(s, w) : s \in {t \in shorter : Len(t) = n - 1}, w \in words}

\* ------------------------------------------------------------------------
\* parseInstruction
\* ------------------------------------------------------------------------

\* toString(2) of one hex digit, 4 characters
HexDigitBits(d) == <<d \div 8, (d \div 4) % 2, (d \div 2) % 2, d % 2>>

\* parseInt(hex, 16).toString(2).padStart(32, "0") for 8 hex characters
RECURSIVE ToBinary(_)
ToBinary(hex) ==
  IF hex = <<>> THEN <<>> ELSE HexDigitBits(Head(hex)) \o ToBinary(Tail(hex))

\* parseInt(bits, 2)
RECURSIVE ParseBinary(_)
ParseBinary(bits) ==
  IF bits = <<>> THEN 0
  ELSE 2 * ParseBinary(SubSeq(bits, 1, Len(bits) - 1)) + bits[Len(bits)]

\* binary.substring(from, to): characters from..to-1, 0-based
Substring(binary, from, to) == SubSeq(binary, from + 1, to)

\* variant: the load range ends one opcode early
ClassifyShortLoadRange(opcode, rs, rt, rdField, functField) ==
  IF opcode = 0
  THEN [rs |-> rs, rt |-> rt, rd |-> rdField, opcode |-> opcode,
        funct |-> functField, type |-> "R"]
  ELSE IF opcode = 2 \/ opcode = 3
  THEN [rs |-> rs, rt |-> rt, rd |-> IF opcode = 3 THEN 31 ELSE 0,
        opcode |-> opcode, funct |-> 0, type |-> "J"]
  ELSE [rs |-> rs, rt |-> rt,
        rd |-> IF opcode >= 32 /\ opcode < 37 THEN rt
               ELSE IF opcode >= 8 /\ opcode <= 15 THEN rt
               ELSE 0,
        opcode |-> opcode, funct |-> 0, type |-> "I"]

\* variant: both jump opcodes write the link register
ClassifyBothJumpsLink(opcode, rs, rt, rdField, functField) ==
  IF opcode = 0
  THEN [rs |-> rs, rt |-> rt, rd |-> rdField, opcode |-> opcode,
        funct |-> functField, type |-> "R"]
  ELSE IF opcode = 2 \/ opcode = 3
  THEN [rs |-> rs, rt |-> rt, rd |-> 31,
        opcode |-> opcode, funct |-> 0, type |-> "J"]
  ELSE [rs |-> rs, rt |-> rt,
        rd |-> IF opcode >= 32 /\ opcode <= 37 THEN rt
               ELSE IF opcode >= 8 /\ opcode <= 15 THEN rt
               ELSE 0,
        opcode |-> opcode, funct |-> 0, type |-> "I"]

\* the classification of parseInstruction, given the extracted fields
\* (rdField and functField are read for R-type only)
Classify(opcode, rs, rt, rdField, functField) ==
  IF opcode = 0
  THEN [rs |-> rs, rt |-> rt, rd |-> rdField, opcode |-> opcode,
        funct |-> functField, type |-> "R"]
  ELSE IF opcode = 2 \/ opcode = 3
  THEN [rs |-> rs, rt |-> rt, rd |-> IF opcode = 3 THEN 31 ELSE 0,
        opcode |-> opcode, funct |-> 0, type |-> "J"]
  ELSE [rs |-> rs, rt |-> rt,
        rd |-> IF opcode >= 32 /\ opcode <= 37 THEN rt
               ELSE IF opcode >= 8 /\ opcode <= 15 THEN rt
               ELSE 0,
        opcode |-> opcode, funct |-> 0, type |-> "I"]

\* variant: rt is read from four characters instead of five
DecodeBinaryShortRt(binary) ==
  Classify(ParseBinary(Substring(binary, 0, 6)),
           ParseBinary(Substring(binary, 6, 11)),
           ParseBinary(Substring(binary, 11, 15)),
           ParseBinary(Substring(binary, 16, 21)),
           ParseBinary(Substring(binary, 26, 32)))

\* the field extraction of parseInstruction from the 32-character string
DecodeBinary(binary) ==
  Classify(ParseBinary(Substring(binary, 0, 6)),
           ParseBinary(Substring(binary, 6, 11)),
           ParseBinary(Substring(binary, 11, 16)),
           ParseBinary(Substring(binary, 16, 21)),
           ParseBinary(Substring(binary, 26, 32)))

parseInstruction(hexInstruction) == DecodeBinary(ToBinary(hexInstruction))

\* registerUsage built by startSimulation: the decoded record of every index
\* below n (submittedInstructions.forEach)
RECURSIVE ParseUpTo(_, _)
ParseUpTo(instructions, n) ==
  IF n <= 0 THEN <<>>
  ELSE ParseUpTo(instructions, n - 1) @@ ((n - 1) :> parseInstruction(instructions[n]))

ParseAll(instructions) == ParseUpTo(instructions, Len(instructions))

\* ------------------------------------------------------------------------
\* detectHazards
\* ------------------------------------------------------------------------

\* "No hazard" record every index is initialised with
NoHazard ==
  [type |-> "NONE",
   description |-> [text |-> "No hazard", reg |-> 0, inst |-> 0],
   canForward |-> FALSE,
   stallCycles |-> 0]

\* accumulator of the look-back loop: rawHazards, maxStallCycles, hazardDescription
EmptyScan ==
  [rawHazards |-> <<>>,
   maxStallCycles |-> 0,
   hazardDescription |-> [text |-> "", reg |-> 0, inst |-> 0]]

\* variant: the stall count taken one too small
StallsNeededOffByOne(distance) == 2 - distance

\* const stallsNeeded = 3 - distance
StallsNeeded(distance) == 3 - distance

\* one "if (currentInst.<field> === prevInst.rd)" block: push the match and,
\* when forwarding is disabled, keep the larger stall and its description
RawMatch(acc, sourceReg, regNum, j, distance, forwardingEnabled) ==
  LET pushed == [acc EXCEPT !.rawHazards =
                   Append(@, [sourceReg |-> sourceReg, regNum |-> regNum,
                              fromInst |-> j, distance |-> distance])]
      stallsNeeded == StallsNeeded(distance)
  IN IF ~forwardingEnabled /\ stallsNeeded > pushed.maxStallCycles
     THEN [pushed EXCEPT !.maxStallCycles = stallsNeeded,
                         !.hazardDescription =
                            [text |-> sourceReg, reg |-> regNum, inst |-> j]]
     ELSE pushed

\* body of "for (let j = Math.max(0, i - 2); j < i; j++)" of the RAW scan
RawBody(acc, j, i, registerUsage, forwardingEnabled) ==
  LET currentInst == registerUsage[i]
      prevInst == registerUsage[j]
      distance == i - j
  IN IF prevInst.rd = 0 THEN acc
     ELSE LET afterRs ==
                IF currentInst.rs = prevInst.rd
                THEN RawMatch(acc, "rs", currentInst.rs, j, distance, forwardingEnabled)
                ELSE acc
          IN IF currentInst.rt = prevInst.rd
             THEN RawMatch(afterRs, "rt", currentInst.rt, j, distance, forwardingEnabled)
             ELSE afterRs

RECURSIVE RawLoop(_, _, _, _, _)
RawLoop(acc, j, i, registerUsage, forwardingEnabled) ==
  IF j >= i THEN acc
  ELSE RawLoop(RawBody(acc, j, i, registerUsage, forwardingEnabled),
               j + 1, i, registerUsage, forwardingEnabled)

\* Math.max(0, i - 2)
WindowStart(i) == IF i - 2 > 0 THEN i - 2 ELSE 0

\* variant: the two producing stages exchanged
FromStageSwapped(distance) == IF distance = 1 THEN "MEM" ELSE "EX"

\* fromStage: hazard.distance === 1 ? "EX" : "MEM"
FromStage(distance) == IF distance = 1 THEN "EX" ELSE "MEM"

\* rawHazards.map(...) of the forwarding branch
ForwardingOf(rawHazards, i) ==
  [k \in 1..Len(rawHazards) |->
     [from |-> rawHazards[k].fromInst,
      to |-> i,
      fromStage |-> FromStage(rawHazards[k].distance),
      toStage |-> "EX",
      register |-> rawHazards[k].regNum]]

\* variant: the WAW scan looks at the preceding instruction only
WawFoundAdjacent(i, registerUsage) ==
  /\ i >= 1
  /\ registerUsage[i - 1].rd # 0
  /\ registerUsage[i].rd = registerUsage[i - 1].rd

\* the WAW scan: some j of the window with prevInst.rd !== 0 and the same rd
WawFound(i, registerUsage) ==
  \E j \in WindowStart(i)..(i - 1) :
     /\ registerUsage[j].rd # 0
     /\ registerUsage[i].rd = registerUsage[j].rd

\* variant: J-kind instructions are analyzed like the others
SkippedFirstOnly(i, registerUsage) == i < 1

\* "if (currentInst.type === 'J') continue" and the loop's start at i = 1
Skipped(i, registerUsage) == i < 1 \/ registerUsage[i].type = "J"

\* the entries hazards[i], forwardings[i], stalls[i] the outer loop leaves for
\* index i, given the result of its look-back scan
Classified(i, registerUsage, forwardingEnabled, scan) ==
  IF Skipped(i, registerUsage)
  THEN [hazard |-> NoHazard, forwarding |-> <<>>, stall |-> 0]
  ELSE IF Len(scan.rawHazards) > 0
  THEN [hazard |->
          [type |-> "RAW",
           description |->
              IF scan.hazardDescription.text # ""
              THEN scan.hazardDescription
              ELSE [text |-> "Depends on previous instruction", reg |-> 0,
                    inst |-> scan.rawHazards[1].fromInst],
           canForward |-> forwardingEnabled,
           stallCycles |-> IF forwardingEnabled THEN 0 ELSE scan.maxStallCycles],
        forwarding |->
          IF ~forwardingEnabled /\ scan.maxStallCycles > 0 THEN <<>>
          ELSE IF forwardingEnabled THEN ForwardingOf(scan.rawHazards, i)
          ELSE <<>>,
        stall |->
          IF ~forwardingEnabled /\ scan.maxStallCycles > 0
          THEN scan.maxStallCycles ELSE 0]
  ELSE IF registerUsage[i].rd # 0 /\ WawFound(i, registerUsage)
  THEN [hazard |->
          [type |-> "WAW",
           description |-> [text |-> "Both instructions write to",
                            reg |-> registerUsage[i].rd, inst |-> 0],
           canForward |-> TRUE,
           stallCycles |-> 0],
        forwarding |-> <<>>,
        stall |-> 0]
  ELSE [hazard |-> NoHazard, forwarding |-> <<>>, stall |-> 0]

\* one iteration of the outer loop "for (let i = 1; ...)" (index 0 keeps its
\* initial entries)
Analyze(i, registerUsage, forwardingEnabled) ==
  Classified(i, registerUsage, forwardingEnabled,
             RawLoop(EmptyScan, WindowStart(i), i, registerUsage, forwardingEnabled))

\* the three records with the entries of index i added
WithEntry(before, i, entry) ==
  [hazards |-> before.hazards @@ (i :> entry.hazard),
   forwardings |-> before.forwardings @@ (i :> entry.forwarding),
   stalls |-> before.stalls @@ (i :> entry.stall)]

\* the three records after the outer loop has handled the indices below n
RECURSIVE DetectUpTo(_, _, _)
DetectUpTo(n, registerUsage, forwardingEnabled) ==
  IF n <= 0 THEN [hazards |-> <<>>, forwardings |-> <<>>, stalls |-> <<>>]
  ELSE WithEntry(DetectUpTo(n - 1, registerUsage, forwardingEnabled), n - 1,
                 Analyze(n - 1, registerUsage, forwardingEnabled))

detectHazards(instructions, registerUsage, forwardingEnabled) ==
  DetectUpTo(Len(instructions), registerUsage, forwardingEnabled)

\* ------------------------------------------------------------------------
\* calculatePrecedingStalls, calculateNextState
\* ------------------------------------------------------------------------

\* Object.values(stalls) summed
RECURSIVE SumBelow(_, _)
SumBelow(stalls, n) ==
  IF n <= 0 THEN 0 ELSE SumBelow(stalls, n - 1) + stalls[n - 1]

TotalStalls(stalls) == SumBelow(stalls, Cardinality(DOMAIN stalls))

\* variant: the instruction's own stall count is included
calculatePrecedingStallsInclusive(stalls, index) == SumBelow(stalls, index + 1)

calculatePrecedingStalls(stalls, index) == SumBelow(stalls, index)

\* variant: the preceding stalls are added instead of subtracted
StageIndexStallsAdded(currentState, nextCycle, index) ==
  nextCycle - index - 1 + calculatePrecedingStalls(currentState.stalls, index)

\* const stageIndex = nextCycle - index - 1 - precedingStalls
StageIndex(currentState, nextCycle, index) ==
  nextCycle - index - 1 - calculatePrecedingStalls(currentState.stalls, index)

\* variant: the index stageCount counts as a stage
InPipelineInclusive(currentState, stageIndex) ==
  stageIndex >= 0 /\ stageIndex <= currentState.stageCount

InPipeline(currentState, stageIndex) ==
  stageIndex >= 0 /\ stageIndex < currentState.stageCount

\* newInstructionStages after the forEach
NewInstructionStages(currentState, nextCycle) ==
  [index \in 0..(Len(currentState.instructions) - 1) |->
     IF InPipeline(currentState, StageIndex(currentState, nextCycle, index))
     THEN StageIndex(currentState, nextCycle, index)
     ELSE NULL]

\* variant: the stall is triggered by the instruction entering EX
RECURSIVE StallScanAtEX(_, _, _)
StallScanAtEX(currentState, nextCycle, n) ==
  IF n <= 0 THEN currentState.currentStallCycles
  ELSE LET before == StallScanAtEX(currentState, nextCycle, n - 1)
           index == n - 1
           stageIndex == StageIndex(currentState, nextCycle, index)
       IN IF /\ InPipeline(currentState, stageIndex)
             /\ stageIndex = 2
             /\ currentState.stalls[index] > 0
             /\ before = 0
          THEN currentState.stalls[index]
          ELSE before

\* newStallCycles after the forEach has visited the indices below n, in order
RECURSIVE StallScan(_, _, _)
StallScan(currentState, nextCycle, n) ==
  IF n <= 0 THEN currentState.currentStallCycles
  ELSE LET before == StallScan(currentState, nextCycle, n - 1)
           index == n - 1
           stageIndex == StageIndex(currentState, nextCycle, index)
       IN IF /\ InPipeline(currentState, stageIndex)
             /\ stageIndex = 1
             /\ currentState.stalls[index] > 0
             /\ before = 0
          THEN currentState.stalls[index]
          ELSE before

\* completionCycle of calculateNextState
CompletionCycle(currentState) ==
  IF Len(currentState.instructions) > 0
  THEN Len(currentState.instructions) + currentState.stageCount - 1
       + TotalStalls(currentState.stalls)
  ELSE 0

\* variant: the run finishes one advance early
FinishedAtEarly(nextCycle, completionCycle) == nextCycle >= completionCycle

\* const isFinished = nextCycle > completionCycle
FinishedAt(nextCycle, completionCycle) == nextCycle > completionCycle

\* variant: the mapping is recomputed during a stall
StallTickAdvances(currentState) ==
  [currentState EXCEPT !.currentCycle = currentState.currentCycle + 1,
                       !.instructionStages =
                          NewInstructionStages(currentState,
                                               currentState.currentCycle + 1),
                       !.currentStallCycles = currentState.currentStallCycles - 1]

\* variant: a stall tick does not count a cycle
StallTickKeepsCycle(currentState) ==
  [currentState EXCEPT !.currentStallCycles = currentState.currentStallCycles - 1]

\* the branch "if (newStallCycles > 0)": the pipeline is frozen for the cycle
StallTick(currentState) ==
  [currentState EXCEPT !.currentCycle = currentState.currentCycle + 1,
                       !.instructionStages = currentState.instructionStages,
                       !.currentStallCycles = currentState.currentStallCycles - 1]

\* variant: the reported cycle is not capped at completionCycle
NormalTickUncapped(currentState) ==
  LET nextCycle == currentState.currentCycle + 1
      completionCycle == CompletionCycle(currentState)
      isFinished == FinishedAt(nextCycle, completionCycle)
  IN [currentState EXCEPT
        !.currentCycle = nextCycle,
        !.instructionStages = NewInstructionStages(currentState, nextCycle),
        !.isRunning = ~isFinished,
        !.isFinished = isFinished,
        !.currentStallCycles =
           StallScan(currentState, nextCycle, Len(currentState.instructions))]

\* variant: the finishing tick leaves the clock running
NormalTickKeepsRunning(currentState) ==
  LET nextCycle == currentState.currentCycle + 1
      completionCycle == CompletionCycle(currentState)
      isFinished == FinishedAt(nextCycle, completionCycle)
  IN [currentState EXCEPT
        !.currentCycle = IF isFinished THEN completionCycle ELSE nextCycle,
        !.instructionStages = NewInstructionStages(currentState, nextCycle),
        !.isFinished = isFinished,
        !.currentStallCycles =
           StallScan(currentState, nextCycle, Len(currentState.instructions))]

\* the rest of calculateNextState: new mapping, stall trigger, completion
NormalTick(currentState) ==
  LET nextCycle == currentState.currentCycle + 1
      completionCycle == CompletionCycle(currentState)
      isFinished == FinishedAt(nextCycle, completionCycle)
  IN [currentState EXCEPT
        !.currentCycle = IF isFinished THEN completionCycle ELSE nextCycle,
        !.instructionStages = NewInstructionStages(currentState, nextCycle),
        !.isRunning = ~isFinished,
        !.isFinished = isFinished,
        !.currentStallCycles =
           StallScan(currentState, nextCycle, Len(currentState.instructions))]

\* variant: the early return tests the finished flag only
AcceptsWhenPaused(currentState) == ~currentState.isFinished

\* the early return "if (!currentState.isRunning || currentState.isFinished)"
Accepts(currentState) == currentState.isRunning /\ ~currentState.isFinished

calculateNextState(currentState) ==
  IF ~Accepts(currentState) THEN currentState
  ELSE IF currentState.currentStallCycles > 0 THEN StallTick(currentState)
  ELSE NormalTick(currentState)

\* ------------------------------------------------------------------------
\* SimulationProvider: state and lifecycle operations
\* ------------------------------------------------------------------------

VARIABLES
  simulationState,  \* the provider's state (useState<SimulationState>)
  inputText,        \* the instruction list the input component submits
  analyzedWith,     \* history: the policy the current run was analyzed with
  uninterrupted,    \* history: the same run advanced by the accepted ticks only
  accepted,         \* history: ticks accepted since the last start or reset
  restart,          \* the pending timeouts of handleForwardingChange
  reachedWB,        \* history: the instructions that have been in WB in this run
  stallHistory      \* history: the stall ticks and stall triggers of this run

vars ==
  <<simulationState, inputText, analyzedWith, uninterrupted, accepted, restart,
    reachedWB, stallHistory>>

\* the instructions the state shows in WB
InWB(state) ==
  {k \in DOMAIN state.instructionStages : state.instructionStages[k] = 4}

\* the history of a run that has not advanced: no stall tick, no trigger
NoStallHistory(state) ==
  [ticks |-> 0, triggers |-> [k \in 0..(Len(state.instructions) - 1) |-> 0]]

\* the indices at which the forEach of a normal tick assigns newStallCycles:
\* stageIndex === 1, stalls[index] > 0 and newStallCycles === 0 on arrival
TriggeredAt(currentState, nextCycle) ==
  {index \in 0..(Len(currentState.instructions) - 1) :
     /\ InPipeline(currentState, StageIndex(currentState, nextCycle, index))
     /\ StageIndex(currentState, nextCycle, index) = 1
     /\ currentState.stalls[index] > 0
     /\ StallScan(currentState, nextCycle, index) = 0}

\* the history after one call of calculateNextState on currentState: a stall
\* tick is counted, a normal tick counts the triggers of its forEach
StallHistoryAfter(history, currentState) ==
  IF ~Accepts(currentState) THEN history
  ELSE IF currentState.currentStallCycles > 0
       THEN [history EXCEPT !.ticks = history.ticks + 1]
       ELSE [history EXCEPT !.triggers =
               [k \in DOMAIN history.triggers |->
                  IF k \in TriggeredAt(currentState, currentState.currentCycle + 1)
                  THEN history.triggers[k] + 1
                  ELSE history.triggers[k]]]

\* no timeout of handleForwardingChange is pending
NoRestart == [step |-> "none", captured |-> TRUE]

initialState ==
  [instructions |-> <<>>,
   currentCycle |-> 0,
   maxCycles |-> 0,
   isRunning |-> FALSE,
   stageCount |-> DEFAULT_STAGE_COUNT,
   instructionStages |-> <<>>,
   isFinished |-> FALSE,
   registerUsage |-> <<>>,
   hazards |-> <<>>,
   forwardings |-> <<>>,
   stalls |-> <<>>,
   currentStallCycles |-> 0,
   forwardingEnabled |-> TRUE]

\* variant: the stall in progress survives the reset
ResetStateKeepsStall(prevState) ==
  [initialState EXCEPT !.forwardingEnabled = prevState.forwardingEnabled,
                       !.currentStallCycles = prevState.currentStallCycles]

\* variant: the policy flag is not preserved
ResetStateForgetsFlag(prevState) == initialState

\* the updater of resetSimulation
ResetState(prevState) ==
  [initialState EXCEPT !.forwardingEnabled = prevState.forwardingEnabled]

\* variant: the stall cycles are left out of the total
CalculatedMaxCyclesNoStalls(submittedInstructions, stalls) ==
  Len(submittedInstructions) + DEFAULT_STAGE_COUNT - 1

\* calculatedMaxCycles of startSimulation
CalculatedMaxCycles(submittedInstructions, stalls) ==
  Len(submittedInstructions) + DEFAULT_STAGE_COUNT - 1 + TotalStalls(stalls)

\* initialStages of startSimulation: the stages for cycle 1
InitialStages(submittedInstructions) ==
  [index \in 0..(Len(submittedInstructions) - 1) |->
     LET stageIndex == 1 - index - 1
     IN IF stageIndex >= 0 /\ stageIndex < DEFAULT_STAGE_COUNT
        THEN stageIndex ELSE NULL]

\* the object startSimulation passes to setSimulationState
NewRun(submittedInstructions, registerUsage, detected, forwardingEnabled) ==
  [instructions |-> submittedInstructions,
   currentCycle |-> 1,
   maxCycles |-> CalculatedMaxCycles(submittedInstructions, detected.stalls),
   isRunning |-> TRUE,
   stageCount |-> DEFAULT_STAGE_COUNT,
   instructionStages |-> InitialStages(submittedInstructions),
   isFinished |-> FALSE,
   registerUsage |-> registerUsage,
   hazards |-> detected.hazards,
   forwardings |-> detected.forwardings,
   stalls |-> detected.stalls,
   currentStallCycles |-> 0,
   forwardingEnabled |-> forwardingEnabled]

\* detectHazards applied to the decoded list
Detected(submittedInstructions, registerUsage, forwardingEnabled) ==
  NewRun(submittedInstructions, registerUsage,
         detectHazards(submittedInstructions, registerUsage, forwardingEnabled),
         forwardingEnabled)

\* the state startSimulation sets for a non-empty list; forwardingEnabled is
\* simulationState.forwardingEnabled as the callback sees it
StartState(submittedInstructions, forwardingEnabled) ==
  Detected(submittedInstructions, ParseAll(submittedInstructions), forwardingEnabled)

\* variant: an empty list is ignored instead of resetting
startSimulationIgnoresEmpty(prevState, submittedInstructions, forwardingEnabled) ==
  IF Len(submittedInstructions) = 0 THEN prevState
  ELSE StartState(submittedInstructions, forwardingEnabled)

\* variant: the new run keeps the flag of the state it replaces, whatever
\* policy it was analyzed with
startSimulationKeepsFlag(prevState, submittedInstructions, forwardingEnabled) ==
  IF Len(submittedInstructions) = 0 THEN ResetState(prevState)
  ELSE [StartState(submittedInstructions, forwardingEnabled)
          EXCEPT !.forwardingEnabled = prevState.forwardingEnabled]

\* variant: the stall in progress of the replaced run is carried over
startSimulationKeepsStall(prevState, submittedInstructions, forwardingEnabled) ==
  IF Len(submittedInstructions) = 0 THEN ResetState(prevState)
  ELSE [StartState(submittedInstructions, forwardingEnabled)
          EXCEPT !.currentStallCycles = prevState.currentStallCycles]

startSimulation(prevState, submittedInstructions, forwardingEnabled) ==
  IF Len(submittedInstructions) = 0 THEN ResetState(prevState)
  ELSE StartState(submittedInstructions, forwardingEnabled)

\* variant: pause toggles the running flag
pauseSimulationToggles(prevState) ==
  [prevState EXCEPT !.isRunning = ~prevState.isRunning]

\* variant: pausing also drops the stall in progress
pauseSimulationDropsStall(prevState) ==
  IF prevState.isRunning
  THEN [prevState EXCEPT !.isRunning = FALSE, !.currentStallCycles = 0]
  ELSE prevState

pauseSimulation(prevState) ==
  IF prevState.isRunning THEN [prevState EXCEPT !.isRunning = FALSE]
  ELSE prevState

\* variant: the guard does not test the finished flag
resumeSimulationAfterFinish(prevState) ==
  IF ~prevState.isRunning /\ prevState.currentCycle > 0
  THEN [prevState EXCEPT !.isRunning = TRUE]
  ELSE prevState

\* variant: the guard tests isRunning instead of its negation, so that a
\* paused run is never resumed
resumeSimulationWrongGuard(prevState) ==
  IF prevState.isRunning /\ prevState.currentCycle > 0 /\ ~prevState.isFinished
  THEN [prevState EXCEPT !.isRunning = TRUE]
  ELSE prevState

resumeSimulation(prevState) ==
  IF ~prevState.isRunning /\ prevState.currentCycle > 0 /\ ~prevState.isFinished
  THEN [prevState EXCEPT !.isRunning = TRUE]
  ELSE prevState

\* variant: the flag is not set while a run is in progress
setForwardingEnabledOnlyIdle(prevState, enabled) ==
  IF prevState.currentCycle > 0 /\ ~prevState.isFinished THEN prevState
  ELSE [prevState EXCEPT !.forwardingEnabled = enabled]

\* variant: setting the flag on a run analyzes its instructions again
setForwardingEnabledReanalyzes(prevState, enabled) ==
  IF Len(prevState.instructions) = 0
  THEN [prevState EXCEPT !.forwardingEnabled = enabled]
  ELSE [prevState EXCEPT
          !.forwardingEnabled = enabled,
          !.hazards = StartState(prevState.instructions, enabled).hazards,
          !.forwardings = StartState(prevState.instructions, enabled).forwardings,
          !.stalls = StartState(prevState.instructions, enabled).stalls,
          !.maxCycles = StartState(prevState.instructions, enabled).maxCycles]

setForwardingEnabled(prevState, enabled) ==
  [prevState EXCEPT !.forwardingEnabled = enabled]

Init ==
  /\ simulationState = initialState
  /\ inputText \in SeqsUpTo(MaxInstr)
  /\ analyzedWith = TRUE
  /\ uninterrupted = initialState
  /\ accepted = 0
  /\ restart = NoRestart
  /\ reachedWB = {}
  /\ stallHistory = NoStallHistory(simulationState)

\* startSimulation(submittedInstructions), with the submitted list or none,
\* called through the callback of the latest render, which reads the
\* simulationState.forwardingEnabled of that render
Start ==
  \E submittedInstructions \in {inputText, <<>>} :
     /\ simulationState' = startSimulation(simulationState, submittedInstructions,
                                           simulationState.forwardingEnabled)
     /\ analyzedWith' = IF Len(submittedInstructions) = 0 THEN TRUE
                        ELSE simulationState.forwardingEnabled
     /\ uninterrupted' = simulationState'
     /\ accepted' = 0
     /\ reachedWB' = InWB(simulationState')
     /\ stallHistory' = NoStallHistory(simulationState')
     /\ UNCHANGED <<inputText, restart>>

Reset ==
  /\ simulationState' = ResetState(simulationState)
  /\ analyzedWith' = TRUE
  /\ uninterrupted' = simulationState'
  /\ accepted' = 0
  /\ reachedWB' = InWB(simulationState')
  /\ stallHistory' = NoStallHistory(simulationState')
  /\ UNCHANGED <<inputText, restart>>

\* one tick of the interval timer: setSimulationState(calculateNextState)
Tick ==
  /\ simulationState' = calculateNextState(simulationState)
  /\ uninterrupted' = IF Accepts(simulationState)
                      THEN calculateNextState(uninterrupted) ELSE uninterrupted
  /\ accepted' = IF Accepts(simulationState) THEN accepted + 1 ELSE accepted
  /\ reachedWB' = reachedWB \cup InWB(simulationState')
  /\ stallHistory' = StallHistoryAfter(stallHistory, simulationState)
  /\ UNCHANGED <<inputText, analyzedWith, restart>>

Pause ==
  /\ simulationState' = pauseSimulation(simulationState)
  /\ UNCHANGED <<inputText, analyzedWith, uninterrupted, accepted, restart, reachedWB, stallHistory>>

Resume ==
  /\ simulationState' = resumeSimulation(simulationState)
  /\ UNCHANGED <<inputText, analyzedWith, uninterrupted, accepted, restart, reachedWB, stallHistory>>

SetForwarding ==
  \E enabled \in BOOLEAN :
     /\ simulationState' = setForwardingEnabled(simulationState, enabled)
     /\ UNCHANGED <<inputText, analyzedWith, uninterrupted, accepted, restart, reachedWB, stallHistory>>

Next == Start \/ Reset \/ Tick \/ Pause \/ Resume \/ SetForwarding

Spec == Init /\ [][Next]_vars

\* A single run: start is called once, on the not-started controller, and the
\* run is then only ticked, paused, resumed and has its policy flag set.  The
\* timer keeps ticking (a tick that advances the run happens again and again
\* while it is possible again and again) and a paused run is resumed.
StartOnce == simulationState.currentCycle = 0 /\ Start

RunNext == StartOnce \/ Tick \/ Pause \/ Resume \/ SetForwarding

RunSpec == Init /\ [][RunNext]_vars /\ SF_vars(Tick) /\ WF_vars(Resume)

\* The input component.  Its closures see the state of the render they were
\* created in, and an event handler is the one of the latest render.
hasStarted(state) == state.currentCycle > 0

\* disabled={disableInputAndStart} of the switch
disableInputAndStart(state) == hasStarted(state) /\ ~state.isFinished

\* handleForwardingChange(checked), called by the enabled switch: the flag is
\* set, and on a finished run the first timeout is scheduled.  The timeouts
\* keep the onReset and onInstructionsSubmit of the handler's render; that
\* startSimulation closure holds the render's forwardingEnabled.  One chain of
\* timeouts is pending at a time.
handleForwardingChange ==
  \E checked \in BOOLEAN :
     /\ ~disableInputAndStart(simulationState)
     /\ restart.step = "none"
     /\ simulationState' = setForwardingEnabled(simulationState, checked)
     /\ restart' = IF hasStarted(simulationState) /\ simulationState.isFinished
                   THEN [step |-> "reset",
                         captured |-> simulationState.forwardingEnabled]
                   ELSE restart
     /\ UNCHANGED <<inputText, analyzedWith, uninterrupted, accepted, reachedWB, stallHistory>>

\* the first timeout: onReset(), and the second timeout is scheduled
RestartReset ==
  /\ restart.step = "reset"
  /\ simulationState' = ResetState(simulationState)
  /\ analyzedWith' = TRUE
  /\ uninterrupted' = simulationState'
  /\ accepted' = 0
  /\ restart' = [restart EXCEPT !.step = "start"]
  /\ reachedWB' = {}
  /\ stallHistory' = NoStallHistory(simulationState')
  /\ UNCHANGED inputText

\* the second timeout: onInstructionsSubmit(currentInstructions) when the
\* list is not empty, through the captured startSimulation
RestartStart ==
  /\ restart.step = "start"
  /\ IF Len(inputText) > 0
     THEN /\ simulationState' = startSimulation(simulationState, inputText,
                                                restart.captured)
          /\ analyzedWith' = restart.captured
          /\ uninterrupted' = simulationState'
          /\ accepted' = 0
          /\ reachedWB' = InWB(simulationState')
          /\ stallHistory' = NoStallHistory(simulationState')
     ELSE UNCHANGED <<simulationState, analyzedWith, uninterrupted, accepted, reachedWB, stallHistory>>
  /\ restart' = NoRestart
  /\ UNCHANGED inputText

\* the pool of the runs that are restarted: a RAW pair and its reverse
RestartWords == {AddR7, AddR8}

RestartInit ==
  /\ simulationState = initialState
  /\ inputText \in SeqsOver(RestartWords, MaxInstr)
  /\ analyzedWith = TRUE
  /\ uninterrupted = initialState
  /\ accepted = 0
  /\ restart = NoRestart
  /\ reachedWB = {}
  /\ stallHistory = NoStallHistory(simulationState)

RestartNext ==
  \/ Start \/ Reset \/ Tick \/ Pause \/ Resume \/ SetForwarding
  \/ handleForwardingChange \/ RestartReset \/ RestartStart

RestartSpec == RestartInit /\ [][RestartNext]_vars

\* The analyzer alone: lists over the larger pool are started, reset and have
\* the policy flag set, and are never ticked.
AnalyzerInit ==
  /\ simulationState = initialState
  /\ inputText \in SeqsOver(AllWords, MaxInstr)
  /\ analyzedWith = TRUE
  /\ uninterrupted = initialState
  /\ accepted = 0
  /\ restart = NoRestart
  /\ reachedWB = {}
  /\ stallHistory = NoStallHistory(simulationState)

AnalyzerNext == Start \/ Reset \/ SetForwarding

AnalyzerSpec == AnalyzerInit /\ [][AnalyzerNext]_vars

\* The decoder alone: one word is started and reset.  The words take every
\* value of their first two digits (every opcode, the two high bits of rs)
\* and a few values of each other digit.
DecodeWords ==
  {<<d1, d2, d3, d4, d5, d6, d7, d8>> :
     d1 \in 0..15, d2 \in 0..15, d3 \in {0, 13}, d4 \in {0, 7, 15},
     d5 \in {0, 11}, d6 \in {0, 8}, d7 \in {0, 6}, d8 \in {0, 11}}

DecodeInit ==
  /\ simulationState = initialState
  /\ inputText \in {<<w>> : w \in DecodeWords}
  /\ analyzedWith = TRUE
  /\ uninterrupted = initialState
  /\ accepted = 0
  /\ restart = NoRestart
  /\ reachedWB = {}
  /\ stallHistory = NoStallHistory(simulationState)

DecodeNext == Start \/ Reset

DecodeSpec == DecodeInit /\ [][DecodeNext]_vars

\* ------------------------------------------------------------------------
\* Properties
\* ------------------------------------------------------------------------

\* a run exists: start accepted a non-empty list and no reset followed
Started == simulationState.currentCycle > 0

Indices == 0..(Len(simulationState.instructions) - 1)

\* what pause/resume transparency compares: cycle, stage mapping, remaining
\* stall cycles and the finished flag
Observed(state) ==
  <<state.currentCycle, state.instructionStages, state.currentStallCycles,
    state.isFinished>>

\* C1: a run created by start on a non-empty list, under either policy, that
\* keeps being ticked and is not left paused forever, eventually is finished
\* (isFinished = true and isRunning = false).
Termination ==
  Started ~> (simulationState.isFinished /\ ~simulationState.isRunning)

\* a finished run that went through stall cycles
TerminationWitness ==
  /\ simulationState.isFinished
  /\ ~simulationState.isRunning
  /\ TotalStalls(simulationState.stalls) > 0
  /\ accepted = simulationState.maxCycles

\* C2: currentCycle never decreases across an advance call, in the stall
\* branch and in the normal branch, and never exceeds maxCycles.
CycleMonotone ==
  /\ [](simulationState.currentCycle <= simulationState.maxCycles)
  /\ [][Tick => simulationState'.currentCycle >= simulationState.currentCycle]_vars

\* the run has been advanced through a stall tick up to its last cycle
CycleMonotoneWitness ==
  /\ Started
  /\ ~simulationState.isFinished
  /\ TotalStalls(simulationState.stalls) > 0
  /\ simulationState.currentCycle = simulationState.maxCycles

\* C3: counting accepted advances from start, the run is not finished after
\* fewer than completionCycle of them and is finished by the
\* completionCycle-th, the one with currentCycle + 1 > completionCycle; the
\* finished state has currentCycle = completionCycle and isRunning = false.
FinishedExactlyAtCompletion ==
  /\ [](Started =>
         /\ accepted <= CompletionCycle(simulationState)
         /\ (accepted < CompletionCycle(simulationState) =>
               /\ ~simulationState.isFinished
               /\ simulationState.currentCycle = accepted + 1)
         /\ (accepted = CompletionCycle(simulationState) =>
               /\ simulationState.isFinished
               /\ ~simulationState.isRunning
               /\ simulationState.currentCycle = CompletionCycle(simulationState)))
  /\ [][(Tick /\ simulationState.isRunning /\ ~simulationState.isFinished) =>
          (simulationState'.isFinished <=>
             simulationState.currentCycle + 1 > CompletionCycle(simulationState))]_vars

\* one advance before the finishing one, in a run with stalls
FinishedExactlyWitness ==
  /\ Started
  /\ simulationState.isRunning
  /\ TotalStalls(simulationState.stalls) > 0
  /\ accepted = CompletionCycle(simulationState) - 1

\* C4: maxCycles stored by start is numInstructions + 5 - 1 + the sum of the
\* per-instruction stall counts and equals the completionCycle advance
\* recomputes; 5 for one instruction, 8 for the distance-1 RAW pair without
\* forwarding, 6 for the same pair with forwarding.
CompletionCycleFormula ==
  Started =>
    /\ simulationState.maxCycles =
         Len(simulationState.instructions) + 5 - 1
         + SumBelow(simulationState.stalls, Len(simulationState.instructions))
    /\ simulationState.maxCycles = CompletionCycle(simulationState)
    /\ (Len(simulationState.instructions) = 1 => simulationState.maxCycles = 5)
    /\ (simulationState.instructions = <<AddR7, AddR8>> =>
          simulationState.maxCycles = IF analyzedWith THEN 6 ELSE 8)

\* the RAW pair analyzed without forwarding and advanced past its stall
CompletionCycleWitness ==
  /\ simulationState.instructions = <<AddR7, AddR8>>
  /\ ~analyzedWith
  /\ simulationState.maxCycles = 8
  /\ simulationState.currentCycle = 6

\* C5: advance returns its input unchanged, every field, when the run is not
\* marked running or is already finished (before start, while paused, after
\* reset, after finishing).
AdvanceNoOp ==
  [][(Tick /\ (~simulationState.isRunning \/ simulationState.isFinished)) =>
       simulationState' = simulationState]_vars

\* a run paused in the middle of a stall: a tick would otherwise advance it
AdvanceNoOpWitness ==
  /\ Started
  /\ ~simulationState.isRunning
  /\ ~simulationState.isFinished
  /\ simulationState.currentStallCycles > 0
  /\ calculateNextState(simulationState) = simulationState

\* C6: pause freezes currentCycle, the stage mapping and the remaining stall
\* count, and whatever pauses and resumes happened, the run shows the same
\* cycle, stage mapping, remaining stall count and finished flag as the
\* uninterrupted run of the same instructions and policy after the same
\* number of accepted advances.
PauseResumeTransparent ==
  /\ [](Observed(simulationState) = Observed(uninterrupted))
  /\ [][Pause => Observed(simulationState') = Observed(simulationState)]_vars

\* a run paused during an active stall, part of the way through
PauseResumeWitness ==
  /\ ~simulationState.isRunning
  /\ ~simulationState.isFinished
  /\ simulationState.currentStallCycles = 1
  /\ accepted >= 3
  /\ uninterrupted.isRunning

\* the look-back window of index i: the indices i-2 and i-1 that exist
Window(i) == {j \in {i - 2, i - 1} : j >= 0}

\* Source fields of instruction i that equal the nonzero destination register
\* of an instruction of its window, as pairs <<producer, field>>.  A J-kind
\* instruction reads no register (the analyzer skips it): it has no match.
RawMatches(i) ==
  LET usage == simulationState.registerUsage
  IN IF usage[i].type = "J" THEN {}
     ELSE {m \in Window(i) \X {"rs", "rt"} :
             /\ usage[m[1]].rd # 0
             /\ (IF m[2] = "rs" THEN usage[i].rs ELSE usage[i].rt) = usage[m[1]].rd}

\* the maximum of 3 - distance over the matches, 0 without a match
MaxStallOver(matches, i) ==
  IF matches = {} THEN 0
  ELSE CHOOSE n \in {3 - (i - m[1]) : m \in matches} :
         \A m \in matches : 3 - (i - m[1]) <= n

\* C7: analyzed with forwarding disabled, the stall count of every index is
\* the maximum of 3 - distance over its RAW matches against i-1 and i-2 (0
\* without a match); analyzed with forwarding enabled, every stall count is 0
\* and every instruction with a RAW match has a nonempty edge list.
StallCountsFormula ==
  Started =>
    \A i \in Indices :
       /\ simulationState.hazards[i].stallCycles = simulationState.stalls[i]
       /\ ~analyzedWith =>
            simulationState.stalls[i] = MaxStallOver(RawMatches(i), i)
       /\ analyzedWith =>
            /\ simulationState.stalls[i] = 0
            /\ (RawMatches(i) # {} => Len(simulationState.forwardings[i]) > 0)

\* without forwarding, an instruction that matches at distance 2 (1 stall
\* needed) and at distance 1 (2 needed) got the larger count
StallCountsWitness ==
  /\ Started
  /\ ~analyzedWith
  /\ \E i \in Indices :
        /\ simulationState.stalls[i] = 2
        /\ {i - m[1] : m \in RawMatches(i)} = {1, 2}

\* C8: analyzed with forwarding enabled, the edge list of every index holds
\* exactly one edge per RAW match (per matching field and producer j), from j
\* to i, leaving EX at distance 1 and MEM at distance 2, arriving at EX;
\* analyzed with forwarding disabled, or when the hazard is not RAW, the edge
\* list is empty.
ForwardingEdgesFormula ==
  Started =>
    \A i \in Indices :
       LET edges == simulationState.forwardings[i]
       IN /\ analyzedWith =>
               /\ Len(edges) = Cardinality(RawMatches(i))
               /\ \A j \in Window(i) :
                     Cardinality({k \in DOMAIN edges : edges[k].from = j}) =
                       Cardinality({m \in RawMatches(i) : m[1] = j})
               /\ \A k \in DOMAIN edges :
                     /\ edges[k].from \in Window(i)
                     /\ edges[k].to = i
                     /\ edges[k].fromStage =
                          (IF i - edges[k].from = 1 THEN "EX" ELSE "MEM")
                     /\ edges[k].toStage = "EX"
          /\ (~analyzedWith \/ simulationState.hazards[i].type # "RAW") =>
               edges = <<>>

\* with forwarding, an instruction with edges from EX and from MEM, two of
\* them from the same producer (rs and rt both match)
ForwardingEdgesWitness ==
  /\ Started
  /\ analyzedWith
  /\ \E i \in Indices :
        LET edges == simulationState.forwardings[i]
        IN /\ Len(edges) >= 3
           /\ \E k \in DOMAIN edges : edges[k].fromStage = "EX"
           /\ \E k \in DOMAIN edges : edges[k].fromStage = "MEM"

\* no RAW match, a nonzero destination register, and an instruction of the
\* window that writes the same register
WawCondition(i) ==
  LET usage == simulationState.registerUsage
  IN /\ RawMatches(i) = {}
     /\ usage[i].rd # 0
     /\ \E j \in Window(i) : usage[j].rd = usage[i].rd

\* what a WAW record holds, and what it adds
WawRecord(i) ==
  /\ simulationState.hazards[i].canForward = TRUE
  /\ simulationState.hazards[i].stallCycles = 0
  /\ simulationState.stalls[i] = 0
  /\ simulationState.forwardings[i] = <<>>

\* C9 as stated: an instruction has kind WAW exactly when it has no RAW match,
\* a nonzero destination register and a writer of the same register at i-1 or
\* i-2; the WAW record is forwardable with no stall and no edge, under either
\* policy; with neither a RAW nor such a WAW match the kind is NONE.
WawExactly ==
  Started =>
    \A i \in Indices :
       /\ simulationState.hazards[i].type = "WAW" <=> WawCondition(i)
       /\ simulationState.hazards[i].type = "WAW" => WawRecord(i)
       /\ (RawMatches(i) = {} /\ ~WawCondition(i)) =>
            simulationState.hazards[i].type = "NONE"

\* C9 (amended): the same for every instruction that is not J-kind; a J-kind
\* instruction never has kind WAW, whatever it and its window write.
WawExactlyNonJ ==
  Started =>
    \A i \in Indices :
       /\ simulationState.hazards[i].type = "WAW" <=>
            (simulationState.registerUsage[i].type # "J" /\ WawCondition(i))
       /\ simulationState.hazards[i].type = "WAW" => WawRecord(i)
       /\ (RawMatches(i) = {} /\ ~WawCondition(i)) =>
            simulationState.hazards[i].type = "NONE"

\* analyzed without forwarding, a WAW record against the instruction two
\* places back, the one in between writing another register
WawWitness ==
  /\ Started
  /\ ~analyzedWith
  /\ \E i \in Indices :
        /\ simulationState.hazards[i].type = "WAW"
        /\ i >= 2
        /\ simulationState.registerUsage[i - 1].rd # simulationState.registerUsage[i].rd

\* C10: one hazard record (and edge list, and stall count) per instruction,
\* and the record of index 0 and of every J-kind instruction is NONE with
\* stall count 0 and no forwarding edge, under either policy.
OneRecordPerInstruction ==
  Started =>
    /\ DOMAIN simulationState.hazards = Indices
    /\ DOMAIN simulationState.forwardings = Indices
    /\ DOMAIN simulationState.stalls = Indices
    /\ \A i \in Indices :
          (i = 0 \/ simulationState.registerUsage[i].type = "J") =>
            /\ simulationState.hazards[i].type = "NONE"
            /\ simulationState.hazards[i].stallCycles = 0
            /\ simulationState.stalls[i] = 0
            /\ simulationState.forwardings[i] = <<>>

\* a J-kind instruction whose bits 25:21 name the register the instruction
\* before it writes, next to an instruction that does get a RAW record
OneRecordWitness ==
  /\ Started
  /\ \E i \in Indices \ {0} :
        /\ simulationState.registerUsage[i].type = "J"
        /\ simulationState.registerUsage[i - 1].rd # 0
        /\ simulationState.registerUsage[i].rs = simulationState.registerUsage[i - 1].rd
  /\ \E i \in Indices : simulationState.hazards[i].type = "RAW"

\* the instruction the WAW scan stops at: the first one of the window that
\* writes the register instruction i writes
WawProducer(i) ==
  LET usage == simulationState.registerUsage
      writers == {j \in Window(i) : usage[j].rd # 0 /\ usage[j].rd = usage[i].rd}
  IN CHOOSE j \in writers : \A k \in writers : j <= k

\* The producers the records of instruction i name, each with the register
\* of the dependency: the source of every forwarding edge, the instruction the
\* RAW description (and with it the stall count) refers to, the instruction
\* the WAW scan stopped at.  With forwarding the description names the first
\* match, whose register is the first edge's.
Producers(i) ==
  LET hazard == simulationState.hazards[i]
      edges == simulationState.forwardings[i]
  IN {<<edges[k].from, edges[k].register>> : k \in DOMAIN edges}
     \cup (IF hazard.type = "RAW"
           THEN {<<hazard.description.inst,
                   IF hazard.description.text \in {"rs", "rt"}
                   THEN hazard.description.reg ELSE edges[1].register>>}
           ELSE {})
     \cup (IF hazard.type = "WAW"
           THEN {<<WawProducer(i), simulationState.registerUsage[i].rd>>}
           ELSE {})

\* C11 as stated: no instruction receives a RAW or WAW hazard, a stall or a
\* forwarding edge whose producer is a J-kind instruction, a call-with-link
\* (opcode 3, destination register 31) included.
NoJumpProducer ==
  Started =>
    \A i \in Indices : \A p \in Producers(i) :
       simulationState.registerUsage[p[1]].type # "J"

\* C11 (amended): the producer of a RAW or WAW hazard, a stall or a forwarding
\* edge is J-kind only when it is a call-with-link (opcode 3), and then the
\* register of the dependency is 31; a jump of opcode 2 is never a producer.
OnlyLinkProducer ==
  Started =>
    \A i \in Indices : \A p \in Producers(i) :
       simulationState.registerUsage[p[1]].type = "J" =>
         /\ simulationState.registerUsage[p[1]].opcode = 3
         /\ p[2] = 31

\* jr $31 two places after a call-with-link, a jump of opcode 2 in between:
\* without forwarding it waits one cycle for the call's register 31
LinkProducerWitness ==
  /\ Started
  /\ ~analyzedWith
  /\ \E i \in Indices :
        /\ i >= 2
        /\ simulationState.registerUsage[i - 2].opcode = 3
        /\ simulationState.registerUsage[i - 1].opcode = 2
        /\ simulationState.hazards[i].type = "RAW"
        /\ simulationState.stalls[i] = 1
        /\ <<i - 2, 31>> \in Producers(i)

\* what the analyzer produced for the run, with the list it was given
Analysis(state) ==
  <<state.instructions, state.registerUsage, state.hazards, state.forwardings,
    state.stalls, state.maxCycles>>

\* C12: advance, pause, resume and setForwardingPolicy leave the instruction
\* list, the decoded registers, the hazard records, the forwarding edges, the
\* stall counts and maxCycles as start computed them.
AnalysisFixed ==
  [][(Tick \/ Pause \/ Resume \/ SetForwarding) =>
       Analysis(simulationState') = Analysis(simulationState)]_vars

\* a run analyzed without forwarding, ticked into its stall, paused, and with
\* the policy flag set to enabled since: its stall counts are still there
AnalysisFixedWitness ==
  /\ Started
  /\ ~analyzedWith
  /\ simulationState.forwardingEnabled
  /\ ~simulationState.isRunning
  /\ simulationState.currentStallCycles > 0
  /\ accepted >= 2
  /\ \E i \in Indices : simulationState.stalls[i] > 0

\* the policy the run's records show: no stall count when it was analyzed
\* with forwarding, no forwarding edge when it was analyzed without
RecordsShow(policy) ==
  \A i \in Indices :
     /\ policy => simulationState.stalls[i] = 0
     /\ ~policy => simulationState.forwardings[i] = <<>>

\* C13 as stated: in every state of a started run the stored policy flag is
\* the policy the run's hazards, edges and stall counts were computed with
\* (flag enabled implies all stall counts 0, flag disabled implies all edge
\* lists empty).
FlagIsRunPolicy ==
  Started =>
    /\ simulationState.forwardingEnabled = analyzedWith
    /\ RecordsShow(simulationState.forwardingEnabled)

\* the stored flag differs from the policy of the analysis
FlagDiffers ==
  Started /\ simulationState.forwardingEnabled # analyzedWith

\* C13 (amended): start stores the policy it analyzes with, which the run's
\* records show from then on, and the stored flag of a started run comes to
\* differ from that policy only by a setForwardingPolicy call.
FlagIsRunPolicyUntilSet ==
  /\ [](Started => RecordsShow(analyzedWith))
  /\ [][(FlagDiffers' /\ ~FlagDiffers) =>
          \E enabled \in BOOLEAN :
             simulationState' = setForwardingEnabled(simulationState, enabled)]_vars

\* a run analyzed without forwarding and advanced into its stall of two
\* cycles, its flag still the policy of the analysis
FlagIsRunPolicyWitness ==
  /\ Started
  /\ ~analyzedWith
  /\ ~simulationState.forwardingEnabled
  /\ simulationState.currentStallCycles > 0
  /\ \E i \in Indices : simulationState.stalls[i] = 2

\* the records of the state are the analyzer's result
RecordsAre(state, detected) ==
  /\ state.hazards = detected.hazards
  /\ state.forwardings = detected.forwardings
  /\ state.stalls = detected.stalls

\* the state of a run of the list at its first cycle: running, no stall in
\* progress, instruction 0 in IF and no other instruction in the pipeline,
\* the records those of the analysis of the list under the policy
FreshRun(state, instructions, policy) ==
  /\ state.instructions = instructions
  /\ state.currentCycle = 1
  /\ state.isRunning
  /\ ~state.isFinished
  /\ state.currentStallCycles = 0
  /\ DOMAIN state.instructionStages = 0..(Len(instructions) - 1)
  /\ \A i \in DOMAIN state.instructionStages :
        state.instructionStages[i] = IF i = 0 THEN 0 ELSE NULL
  /\ state.registerUsage = ParseAll(instructions)
  /\ RecordsAre(state, detectHazards(instructions, state.registerUsage, policy))
  /\ state.maxCycles =
       Len(instructions) + 4 + SumBelow(state.stalls, Len(instructions))

\* C14: start with a non-empty list, in any state, yields the first cycle of
\* a fresh run of that list: cycle 1, running, not finished, no stall in
\* progress, instruction 0 in IF and the others not in the pipeline, the
\* records freshly computed; nothing of the previous run survives.
StartIsFresh ==
  [][(Len(simulationState'.instructions) > 0 /\ accepted' = 0 /\ Start) =>
       FreshRun(simulationState', inputText, simulationState.forwardingEnabled)]_vars

\* a paused run in the middle of a stall, past its first cycles, on which
\* start gives the first cycle of a fresh run
StartIsFreshWitness ==
  /\ Started
  /\ ~simulationState.isRunning
  /\ simulationState.currentStallCycles > 0
  /\ simulationState.currentCycle > 2
  /\ simulationState.forwardingEnabled
  /\ FreshRun(startSimulation(simulationState, inputText,
                              simulationState.forwardingEnabled),
              inputText, TRUE)

\* C15: whenever start creates a run, from an event handler or from the
\* timeouts of the switch, the run is analyzed with the policy flag the state
\* holds when start is applied and stores that flag: start never reverts the
\* flag to an older value.
StartUsesCurrentPolicy ==
  [][(Len(simulationState'.instructions) > 0 /\ accepted' = 0
        /\ (Start \/ RestartStart)) =>
       /\ analyzedWith' = simulationState.forwardingEnabled
       /\ simulationState'.forwardingEnabled = simulationState.forwardingEnabled]_vars

\* the not-started state: every field but the policy flag has its initial
\* value
NotStarted(state) ==
  /\ state.instructions = <<>>
  /\ state.currentCycle = 0
  /\ state.maxCycles = 0
  /\ ~state.isRunning
  /\ ~state.isFinished
  /\ state.stageCount = 5
  /\ state.instructionStages = <<>>
  /\ state.registerUsage = <<>>
  /\ state.hazards = <<>>
  /\ state.forwardings = <<>>
  /\ state.stalls = <<>>
  /\ state.currentStallCycles = 0

\* C16: start with an empty list creates no run: in any prior state it leaves
\* the not-started state with the policy flag unchanged, as reset does.
StartEmptyResets ==
  [][(accepted' = 0 /\ simulationState' =
        startSimulation(simulationState, <<>>, simulationState.forwardingEnabled)) =>
       /\ NotStarted(simulationState')
       /\ simulationState'.forwardingEnabled = simulationState.forwardingEnabled
       /\ simulationState' = ResetState(simulationState)]_vars

\* a run in the middle of a stall, its flag disabled, which start with the
\* empty list replaces by the not-started state with the flag still disabled
StartEmptyWitness ==
  /\ Started
  /\ simulationState.isRunning
  /\ simulationState.currentStallCycles > 0
  /\ ~simulationState.forwardingEnabled
  /\ NotStarted(startSimulation(simulationState, <<>>, FALSE))
  /\ ~startSimulation(simulationState, <<>>, FALSE).forwardingEnabled

\* C17: reset, in any state, returns every field to its initial not-started
\* value except the policy flag, which keeps the value it had immediately
\* before the reset.
ResetKeepsFlagOnly ==
  [][Reset =>
       /\ NotStarted(simulationState')
       /\ simulationState'.forwardingEnabled = simulationState.forwardingEnabled]_vars

\* a finished run with stalls whose flag was set to enabled after its start,
\* which reset replaces by the not-started state with the flag enabled
ResetKeepsFlagWitness ==
  /\ simulationState.isFinished
  /\ TotalStalls(simulationState.stalls) > 0
  /\ simulationState.forwardingEnabled
  /\ NotStarted(ResetState(simulationState))
  /\ ResetState(simulationState).forwardingEnabled

\* every field of the state but the policy flag
Rest(state) ==
  <<state.instructions, state.currentCycle, state.maxCycles, state.isRunning,
    state.stageCount, state.instructionStages, state.isFinished,
    state.registerUsage, state.hazards, state.forwardings, state.stalls,
    state.currentStallCycles>>

\* C18: setForwardingPolicy(enabled) is accepted in every state and sets the
\* flag to enabled, leaving every other field unchanged: cycle, flags, stage
\* mapping, remaining stall cycles, hazards, edges, stalls and maxCycles.
SetPolicyOnlyFlag ==
  /\ [](\A enabled \in BOOLEAN :
          /\ setForwardingEnabled(simulationState, enabled).forwardingEnabled = enabled
          /\ Rest(setForwardingEnabled(simulationState, enabled)) = Rest(simulationState))
  /\ [][SetForwarding => Rest(simulationState') = Rest(simulationState)]_vars

\* a running run of the second cycle or later, analyzed with forwarding and
\* holding edges, whose flag has been set to disabled
SetPolicyWitness ==
  /\ Started
  /\ simulationState.isRunning
  /\ simulationState.currentCycle >= 2
  /\ analyzedWith
  /\ ~simulationState.forwardingEnabled
  /\ \E i \in Indices : simulationState.forwardings[i] # <<>>

\* C19: resume changes the state only when the run has started, is not
\* running and is not finished, and then sets only the running flag; pause
\* changes the state only when the run is running, and then clears only the
\* running flag; otherwise each returns the state unchanged.
PauseResumeGuards ==
  /\ [](resumeSimulation(simulationState) =
          IF /\ simulationState.currentCycle > 0
             /\ ~simulationState.isRunning
             /\ ~simulationState.isFinished
          THEN [simulationState EXCEPT !.isRunning = TRUE]
          ELSE simulationState)
  /\ [](pauseSimulation(simulationState) =
          IF simulationState.isRunning
          THEN [simulationState EXCEPT !.isRunning = FALSE]
          ELSE simulationState)
  /\ [][Resume => /\ simulationState.currentCycle > 0
                  /\ ~simulationState.isRunning
                  /\ ~simulationState.isFinished
                  /\ simulationState' = [simulationState EXCEPT !.isRunning = TRUE]]_vars
  /\ [][Pause => /\ simulationState.isRunning
                 /\ simulationState' = [simulationState EXCEPT !.isRunning = FALSE]]_vars

\* a run paused after some advances: resume would set its running flag and
\* nothing else, pause leaves it as it is
PauseResumeGuardsWitness ==
  /\ Started
  /\ ~simulationState.isRunning
  /\ ~simulationState.isFinished
  /\ accepted >= 1
  /\ resumeSimulation(simulationState).isRunning
  /\ Observed(resumeSimulation(simulationState)) = Observed(simulationState)
  /\ pauseSimulation(simulationState) = simulationState

\* a finished state stays as it is: finished, not running, the same cycle
StaysFinished ==
  /\ simulationState'.isFinished
  /\ ~simulationState'.isRunning
  /\ simulationState'.currentCycle = simulationState.currentCycle

\* C20 as stated: once a run is finished it remains finished, not running and
\* at the same cycle under every lifecycle operation and tick until reset is
\* called.
FinishedUntilReset ==
  [][(simulationState.isFinished /\ ~Reset) => StaysFinished]_vars

\* C20 (amended): the same until reset or start is called; start on a
\* finished run replaces it by a new run (or resets, for an empty list).
FinishedUntilResetOrStart ==
  [][(simulationState.isFinished /\ ~(Reset \/ Start)) => StaysFinished]_vars

\* a finished run with stalls that tick, pause and resume leave unchanged
\* and whose flag has been set since it was analyzed
FinishedWitness ==
  /\ simulationState.isFinished
  /\ TotalStalls(simulationState.stalls) > 0
  /\ simulationState.forwardingEnabled # analyzedWith
  /\ calculateNextState(simulationState) = simulationState
  /\ resumeSimulation(simulationState) = simulationState
  /\ pauseSimulation(simulationState) = simulationState

\* C21: a tick applied after pause or reset, in any interleaving with them,
\* leaves the state unchanged, and after a reset during an active stall no
\* stall count, cycle number or stage mapping of the discarded run is left.
TicksCancelled ==
  /\ [][(Pause \/ Reset) =>
          calculateNextState(simulationState') = simulationState']_vars
  /\ [][(Tick /\ ~simulationState.isRunning) =>
          simulationState' = simulationState]_vars
  /\ [][(Reset /\ simulationState.currentStallCycles > 0) =>
          /\ simulationState'.currentCycle = 0
          /\ simulationState'.currentStallCycles = 0
          /\ simulationState'.stalls = <<>>
          /\ simulationState'.hazards = <<>>
          /\ simulationState'.instructionStages = <<>>
          /\ simulationState'.maxCycles = 0]_vars

\* a run in the second cycle of a stall of two: reset leaves nothing of it,
\* pause leaves it as it is, and a tick changes neither result
TicksCancelledWitness ==
  /\ simulationState.isRunning
  /\ simulationState.currentStallCycles = 1
  /\ \E i \in Indices : simulationState.stalls[i] = 2
  /\ NotStarted(ResetState(simulationState))
  /\ calculateNextState(ResetState(simulationState)) = ResetState(simulationState)
  /\ calculateNextState(pauseSimulation(simulationState)) =
       pauseSimulation(simulationState)

\* the decoded record of the single word of a started run, and the word
Decoded == simulationState.registerUsage[0]

Word == simulationState.instructions[1]

\* the 16 high and the 16 low bits of the word as numbers: w div 2^16 and
\* w mod 2^16
HighHalf == ((Word[1] * 16 + Word[2]) * 16 + Word[3]) * 16 + Word[4]

LowHalf == ((Word[5] * 16 + Word[6]) * 16 + Word[7]) * 16 + Word[8]

\* C22: decode returns kind R with destination the rd field when the opcode
\* is 0, kind J with destination 31 for opcode 3 and 0 for opcode 2, and
\* otherwise kind I with destination the rt field when the opcode is in
\* 32..37 or 8..15 and destination 0 when it is not; every word decodes.
DecodeTable ==
  (Started /\ Len(simulationState.instructions) = 1) =>
    LET opcode == HighHalf \div 1024
    IN /\ Decoded.type \in {"R", "I", "J"}
       /\ Decoded.type = "R" <=> opcode = 0
       /\ Decoded.type = "J" <=> opcode \in {2, 3}
       /\ opcode = 0 => Decoded.rd = (LowHalf \div 2048) % 32
       /\ opcode = 3 => Decoded.rd = 31
       /\ opcode = 2 => Decoded.rd = 0
       /\ opcode \in (8..15) \cup (32..37) => Decoded.rd = HighHalf % 32
       /\ opcode \notin {0, 2, 3} \cup (8..15) \cup (32..37) => Decoded.rd = 0
       /\ DOMAIN Decoded = {"rs", "rt", "rd", "opcode", "funct", "type"}

\* the last opcode of the load range, with a nonzero rt field
DecodeTableWitness ==
  /\ Started
  /\ Decoded.opcode = 37
  /\ Decoded.type = "I"
  /\ Decoded.rd = 15

\* C23: opcode = w div 2^26, rs = (w div 2^21) mod 32 and
\* rt = (w div 2^16) mod 32 for every kind; rd = (w div 2^11) mod 32 and
\* funct = w mod 64 for R-type; funct = 0 for the kinds I and J.
DecodeFields ==
  (Started /\ Len(simulationState.instructions) = 1) =>
    /\ Decoded.opcode = HighHalf \div 1024
    /\ Decoded.rs = (HighHalf \div 32) % 32
    /\ Decoded.rt = HighHalf % 32
    /\ Decoded.type = "R" =>
         /\ Decoded.rd = (LowHalf \div 2048) % 32
         /\ Decoded.funct = LowHalf % 64
    /\ Decoded.type # "R" => Decoded.funct = 0

\* an R-type word whose rs, rt, rd and funct fields each have bits in two
\* hex digits
DecodeFieldsWitness ==
  /\ Started
  /\ Decoded.type = "R"
  /\ Decoded.rs = 22
  /\ Decoded.rt = 23
  /\ Decoded.rd = 23
  /\ Decoded.funct = 43

\* an advance that is accepted: a tick of a run that is running
AcceptedTick == Tick /\ simulationState.isRunning /\ ~simulationState.isFinished

\* C24: an advance accepted with stall cycles remaining decreases them by
\* exactly 1, increases currentCycle by exactly 1 and keeps the stage mapping
\* and the running and finished flags.
StallTickFrame ==
  [][(AcceptedTick /\ simulationState.currentStallCycles > 0) =>
       /\ simulationState'.currentStallCycles = simulationState.currentStallCycles - 1
       /\ simulationState'.currentCycle = simulationState.currentCycle + 1
       /\ simulationState'.instructionStages = simulationState.instructionStages
       /\ simulationState'.isRunning
       /\ ~simulationState'.isFinished]_vars

\* the sum of the stall counts of the indices of a set
RECURSIVE SumOver(_, _)
SumOver(stalls, indices) ==
  IF indices = {} THEN 0
  ELSE LET k == CHOOSE k \in indices : TRUE
       IN stalls[k] + SumOver(stalls, indices \ {k})

\* the stall counts of the instructions before instruction k
StallsBefore(k) == SumOver(simulationState.stalls, 0..(k - 1))

\* the cycle whose normal tick puts instruction k in ID
TriggerCycle(k) == k + 2 + StallsBefore(k)

\* a stall of two cycles is over: the instruction is still in ID two cycles
\* after the tick that put it there
StallTickWitness ==
  /\ simulationState.isRunning
  /\ simulationState.currentStallCycles = 0
  /\ \E k \in Indices :
        /\ simulationState.stalls[k] = 2
        /\ simulationState.instructionStages[k] = 1
        /\ simulationState.currentCycle = TriggerCycle(k) + 2

\* the stage the formula gives instruction k at a cycle
FormulaStage(cycle, k) ==
  LET stageIndex == cycle - k - 1 - StallsBefore(k)
  IN IF stageIndex \in 0..4 THEN stageIndex ELSE NULL

\* C25: an advance accepted with no stall cycle remaining gives every
\* instruction k the stage nextCycle - k - 1 - precedingStalls(k) when that is
\* in 0..4 and takes it out of the pipeline otherwise, precedingStalls(k)
\* being the stall counts of the indices below k, its own not included.
NormalTickMapping ==
  [][(AcceptedTick /\ simulationState.currentStallCycles = 0) =>
       /\ DOMAIN simulationState'.instructionStages = Indices
       /\ \A k \in Indices :
             simulationState'.instructionStages[k] =
               FormulaStage(simulationState.currentCycle + 1, k)]_vars

\* an instruction with a stall count of its own and another stall before it,
\* in WB at the cycle the formula gives without its own stalls
NormalTickWitness ==
  /\ simulationState.isRunning
  /\ \E k \in Indices :
        /\ simulationState.stalls[k] > 0
        /\ StallsBefore(k) > 0
        /\ simulationState.instructionStages[k] = 4
        /\ simulationState.currentCycle = k + 5 + StallsBefore(k)

\* the instructions a normal tick to the cycle puts in ID with a stall count
Triggering(cycle) ==
  {k \in Indices : FormulaStage(cycle, k) = 1 /\ simulationState.stalls[k] > 0}

\* C26: a normal tick that puts an instruction with a nonzero stall count in
\* ID sets the remaining stall cycles to that count, with the mapping of the
\* formula (the instruction in ID); the accepted advances that follow while
\* stall cycles remain are as many stall ticks with that mapping frozen; a
\* normal tick that puts no such instruction in ID leaves 0 stall cycles.
StallTriggering ==
  /\ [][(AcceptedTick /\ simulationState.currentStallCycles = 0) =>
          LET nextCycle == simulationState.currentCycle + 1
          IN /\ \A k \in Triggering(nextCycle) :
                   /\ simulationState'.currentStallCycles = simulationState.stalls[k]
                   /\ simulationState'.instructionStages[k] = 1
             /\ Triggering(nextCycle) = {} =>
                   simulationState'.currentStallCycles = 0]_vars
  /\ [](simulationState.currentStallCycles > 0 =>
          \E k \in Indices :
             LET done == simulationState.stalls[k] - simulationState.currentStallCycles
             IN /\ done >= 0
                /\ simulationState.currentCycle = TriggerCycle(k) + done
                /\ accepted = TriggerCycle(k) + done - 1
                /\ \A j \in Indices :
                      simulationState.instructionStages[j] =
                        FormulaStage(TriggerCycle(k), j))

\* the third instruction has just been put in ID, after the stall of the
\* second, and starts a stall of its own
StallTriggeringWitness ==
  /\ simulationState.isRunning
  /\ \E k \in Indices :
        /\ k >= 2
        /\ StallsBefore(k) > 0
        /\ simulationState.instructionStages[k] = 1
        /\ simulationState.currentStallCycles = simulationState.stalls[k]
        /\ simulationState.currentStallCycles > 0

\* no instruction of the run has a stall count
NoStalls == \A k \in Indices : simulationState.stalls[k] = 0

\* C27: in a run without stalls (every run analyzed with forwarding, every
\* run whose stall counts are all 0) instruction k is in stage s exactly in
\* cycle k + s + 1, the cycle being the number of accepted advances plus 1:
\* it is in IF, ID, EX, MEM, WB for one cycle each, in that order, and the
\* last instruction is in WB in cycle completionCycle; the finished state,
\* after that cycle, has no instruction in the pipeline.
OneStagePerCycle ==
  /\ (Started /\ analyzedWith) => NoStalls
  /\ (Started /\ NoStalls) =>
       LET cycle == accepted + 1
           last == Len(simulationState.instructions) - 1
       IN /\ \A k \in Indices : \A s \in 0..4 :
                simulationState.instructionStages[k] = s <=> cycle = k + s + 1
          /\ \A k \in Indices :
                simulationState.instructionStages[k] \in (0..4) \cup {NULL}
          /\ ~simulationState.isFinished => simulationState.currentCycle = cycle
          /\ cycle = simulationState.maxCycles =>
                simulationState.instructionStages[last] = 4
          /\ simulationState.isFinished =>
                /\ cycle = simulationState.maxCycles + 1
                /\ \A k \in Indices : simulationState.instructionStages[k] = NULL

\* three instructions with forwarding edges, in the last cycle: the last one
\* in WB, the others retired
OneStagePerCycleWitness ==
  /\ simulationState.isRunning
  /\ analyzedWith
  /\ Len(simulationState.instructions) = 3
  /\ simulationState.forwardings[2] # <<>>
  /\ simulationState.currentCycle = 7
  /\ simulationState.instructionStages = (0 :> NULL) @@ (1 :> NULL) @@ (2 :> 4)

\* what an instruction's stage may do from one state of a run to the next:
\* stay, advance by one, enter IF, or leave from WB
StageStep(from, to) ==
  \/ to = from
  \/ from # NULL /\ to = from + 1
  \/ from = NULL /\ to = 0
  \/ from = 4 /\ to = NULL

\* C28: no stage is skipped, with or without stalls: from one state of a run
\* to the next every instruction's stage stays the same, increases by
\* exactly 1, goes from not in the pipeline to IF, or from WB to not in the
\* pipeline.
NoStageSkipped ==
  [][Tick => \A k \in Indices :
               StageStep(simulationState.instructionStages[k],
                         simulationState'.instructionStages[k])]_vars

\* C29: when a run is finished every instruction has been in WB in some
\* state of the run, and the finished state has no instruction in the
\* pipeline.
AllRetired ==
  simulationState.isFinished =>
    /\ reachedWB = Indices
    /\ \A k \in Indices : simulationState.instructionStages[k] = NULL

\* the instructions that are in the pipeline in the current state
InFlight == {k \in Indices : simulationState.instructionStages[k] # NULL}

\* C30: in every reachable state no two instructions occupy the same stage,
\* and of two instructions in the pipeline the earlier one is in the later
\* stage.
StagesOrdered ==
  \A j, k \in InFlight :
    j < k => simulationState.instructionStages[j] >
             simulationState.instructionStages[k]

\* three instructions are in the pipeline at once in a run with stalls
StagesOrderedWitness ==
  /\ Cardinality(InFlight) = 3
  /\ TotalStalls(simulationState.stalls) > 0
  /\ simulationState.currentCycle > 1

\* the instructions the analysis gave a nonzero stall count
Stalled == {k \in Indices : simulationState.stalls[k] > 0}

\* C31: every instruction with a nonzero stall count triggers its stall
\* exactly once per run: no stall is triggered twice, the stall of an
\* instruction has been triggered as soon as the advances of the run have
\* reached the cycle that puts it in ID, and no other instruction triggers
\* one; the stall ticks of a run never exceed totalStallCycles and equal it
\* when the run is finished; the remaining stall cycles are between 0 and 2.
StallsOncePerRun ==
  /\ simulationState.currentStallCycles \in 0..2
  /\ stallHistory.ticks <= TotalStalls(simulationState.stalls)
  /\ \A k \in Indices :
        /\ stallHistory.triggers[k] <= 1
        /\ k \notin Stalled => stallHistory.triggers[k] = 0
        /\ (k \in Stalled /\ accepted + 1 >= TriggerCycle(k)) =>
              stallHistory.triggers[k] = 1
  /\ simulationState.isFinished =>
        /\ stallHistory.ticks = TotalStalls(simulationState.stalls)
        /\ \A k \in Stalled : stallHistory.triggers[k] = 1

\* a finished run in which two instructions have stalled
StallsOncePerRunWitness ==
  /\ simulationState.isFinished
  /\ Cardinality(Stalled) = 2
  /\ stallHistory.ticks = TotalStalls(simulationState.stalls)
  /\ \A k \in Stalled : stallHistory.triggers[k] = 1

\* C32: in every reachable state isRunning and isFinished are never both
\* true; isRunning implies currentCycle >= 1 and a non-empty instruction
\* list; isFinished implies currentCycle = maxCycles; currentCycle = 0 if
\* and only if the instruction list is empty; remaining stall cycles imply a
\* started run that is not finished.
FlagsConsistent ==
  /\ ~(simulationState.isRunning /\ simulationState.isFinished)
  /\ simulationState.isRunning =>
        /\ simulationState.currentCycle >= 1
        /\ Len(simulationState.instructions) > 0
  /\ simulationState.isFinished =>
        simulationState.currentCycle = simulationState.maxCycles
  /\ simulationState.currentCycle = 0 <=> Len(simulationState.instructions) = 0
  /\ simulationState.currentStallCycles > 0 =>
        /\ Len(simulationState.instructions) > 0
        /\ simulationState.currentCycle >= 1
        /\ ~simulationState.isFinished

\* a run with stalls has finished: the clock is stopped at maxCycles
FlagsConsistentWitness ==
  /\ simulationState.isFinished
  /\ ~simulationState.isRunning
  /\ simulationState.currentCycle = simulationState.maxCycles
  /\ simulationState.maxCycles > Len(simulationState.instructions) + 4
  /\ accepted = simulationState.maxCycles

====
